---- MODULE Spec2Model ----
(***************************************************************************)
(* Door event logger: the Express server of src/init-db.js (lines 59-345)  *)
(* and the PostgreSQL table `events` it owns.                              *)
(*                                                                         *)
(* Every handler issues exactly one SQL statement through pool.query and   *)
(* touches no other shared state: what it does before the await reads the  *)
(* request only, what it does after it builds the response from the        *)
(* statement's result.  A handler is therefore one action, taken at the    *)
(* instant PostgreSQL runs its statement (a single-statement autocommit    *)
(* transaction), and concurrent requests are these actions in any order.   *)
(* The one flow with two statements is the front-end's undo of a button:   *)
(* GET /api/events/last, then DELETE /api/events/:id with the id found;    *)
(* any other request may run between the two.                              *)
(*                                                                         *)
(* Time is counted in whole days, the unit of DATA_RETENTION_DAYS.  Two    *)
(* statements executed without a clock tick in between read the same       *)
(* NOW().                                                                  *)
(***************************************************************************)
EXTENDS Integers, FiniteSets, Sequences, TLC

VARIABLES
    events,     \* the rows of table `events`
    nextId,     \* the next value of the sequence behind `id SERIAL`
    now,        \* the server clock, NOW() AT TIME ZONE 'UTC', in days
    storeUp,    \* TRUE while pool.query reaches the database
    pending,    \* per client: the undo it is about to send after a lookup
    resp,       \* what the server put out last: the HTTP response of a
                \* handler, or the line the daily job logged
    recorded,   \* history: record requests answered 201
    undoAcks,   \* history: per id, the number of undo requests answered 204
    purged,     \* history: rows hard-deleted by cleanup so far
    phase,      \* where the server process is: startServer, or listening
    tableExists,    \* TRUE once the database has the table `events`
    indexes,    \* the number of indexes of the table
    inUse,      \* connections of the pool checked out
    queued,     \* calls waiting for a connection of the pool
    running,    \* calls whose statement the database is executing
    hung,       \* calls whose statement the database has left unanswered
    arrived,    \* history: calls accepted since the server listens
    peer        \* where a second server process on the same database is

\* The table and what the handlers put out.
dataVars == <<events, nextId, now, storeUp, pending, resp,
              recorded, undoAcks, purged>>

\* The server process and its connection pool.
poolVars == <<phase, tableExists, indexes, inUse, queued, running, hung,
              arrived, peer>>

vars == <<events, nextId, now, storeUp, pending, resp,
          recorded, undoAcks, purged,
          phase, tableExists, indexes, inUse, queued, running, hung, arrived,
          peer>>

-----------------------------------------------------------------------------
(* Bounds of the model *)

\* At most MaxId rows are ever inserted, so ids range over 1..MaxId.
MaxId == 2

\* The instants the model clock visits.  Days 2..7 are skipped: with a
\* retention of 7 days no row created on day 0 or later expires before day 8,
\* where a row of day 0 is 8 days old and a row of day 1 is 7 days old.
ClockDays == {0, 1, 8}

\* The calls the server accepts are at most ExtraCalls more than the pool
\* has connections.
ExtraCalls == 2

\* The clients that undo a button (lookup, then delete).  Every other
\* request, an undo by id included, may run between the two steps.
Clients == {"c1"}

\* A second client, which undoes buttons at the same time as the first in
\* SpecTwoUndo only.
Rival == "c2"

AllClients == Clients \cup {Rival}

-----------------------------------------------------------------------------
(* Program constants *)

\* new Pool({ max: 20 })
POOL_MAX == 20

\* The CREATE INDEX statements of the initialisation.
INDEX_COUNT == 4

MaxCalls == POOL_MAX + ExtraCalls

DATA_RETENTION_DAYS == 7

MIN_DOOR == 1

MAX_DOOR == 26

EVENT_TYPES == {"A_IN", "A_OUT", "B_IN", "B_OUT"}

\* deleted_at TIMESTAMP NULL: the null marker of an active row.
NULL == -1

-----------------------------------------------------------------------------
(* Inputs *)

\* The timestamp a client puts into a request of its own accord: a day the
\* server clock never shows.
CLIENT_DAY == 5

\* The buttons pressed: two doors at the ends of the range, two event types.
Buttons ==
    {[door_number |-> 1, event_type |-> "A_IN"],
     [door_number |-> 26, event_type |-> "A_IN"],
     [door_number |-> 1, event_type |-> "B_OUT"]}

\* JSON bodies of POST /api/events; a field may be missing.
RecordBodies ==
    Buttons
    \cup {[door_number |-> d, event_type |-> "A_IN"] : d \in {0 - 1, 0, 27}}
    \cup {[door_number |-> 1, event_type |-> t] : t \in {"C_IN", ""}}
    \cup {[event_type |-> "A_IN"], [door_number |-> 26]}
    \cup {[door_number |-> 1, event_type |-> "A_IN",
           timestamp_utc |-> CLIENT_DAY]}

\* Query strings of GET /api/events/last.
LastQueries ==
    Buttons
    \cup {[event_type |-> "A_IN"], [door_number |-> 26]}

\* Query strings of GET /api/events/recent: no limit, or the text of the
\* limit parameter, one character per element.
RecentQueries ==
    {[other |-> "none"]}
    \cup {[limit |-> l] : l \in {<<"1">>, <<"2", "x">>, <<"0">>, <<"-", "1">>,
                                 <<"a", "b", "c">>,
                                 <<"1", "0", "0", "0", "0", "0", "0">>}}

\* Values of an INSERT that reaches the table without passing the handler.
DirectDoors == {0, 1, 26, 27}

DirectTypes == {"A_IN", "C_IN"}

\* Ids a client may ask to undo; MaxId + 1 is never assigned.
UndoIds == 1..(MaxId + 1)

-----------------------------------------------------------------------------
(* Values *)

\* An undo request as its sender sees it: the id of the path, and the button
\* whose lookup gave the id (door 0 and no type for an undo by stored id).
UndoRequest(d, t, id) ==
    [op |-> "undo", door_number |-> d, event_type |-> t, id |-> id]

Idle == [op |-> "idle", door_number |-> 0, event_type |-> "", id |-> 0]

NoResponse == [op |-> "none", req |-> "none", status |-> 0, body |-> "none"]

\* A response, with the request it answers.
Response(op, req, status, body) ==
    [op |-> op, req |-> req, status |-> status, body |-> body]

Max(S) == CHOOSE x \in S : \A y \in S : y <= x

Min(S) == CHOOSE x \in S : \A y \in S : x <= y

-----------------------------------------------------------------------------
(* JavaScript helpers *)

\* !body.f : the field is undefined, 0 or the empty string.
Falsy(body, f) ==
    \/ f \notin DOMAIN body
    \/ body[f] = (IF f = "door_number" THEN 0 ELSE "")

DigitChars == <<"0", "1", "2", "3", "4", "5", "6", "7", "8", "9">>

DigitValue(ch) == (CHOOSE i \in DOMAIN DigitChars : DigitChars[i] = ch) - 1

IsDigit(ch) == \E i \in DOMAIN DigitChars : DigitChars[i] = ch

\* The longest prefix of s made of decimal digits.
RECURSIVE LeadingDigits(_)
LeadingDigits(s) ==
    IF s = <<>> \/ ~IsDigit(Head(s)) THEN <<>>
    ELSE <<Head(s)>> \o LeadingDigits(Tail(s))

\* The number a sequence of decimal digits writes.
RECURSIVE DecimalValue(_)
DecimalValue(ds) ==
    IF ds = <<>> THEN 0
    ELSE 10 * DecimalValue(SubSeq(ds, 1, Len(ds) - 1))
            + DigitValue(ds[Len(ds)])

\* A JavaScript number that is NaN, or an integer.
NaN == [nan |-> TRUE, value |-> 0]

Number(n) == [nan |-> FALSE, value |-> n]

\* parseInt(text): an optional sign, then the leading decimal digits; NaN
\* when there is no digit.  What follows the digits is ignored.
ParseInt(text) ==
    LET signed == text # <<>> /\ Head(text) \in {"-", "+"}
        digits == LeadingDigits(IF signed THEN Tail(text) ELSE text)
    IN  IF digits = <<>> THEN NaN
        ELSE IF signed /\ Head(text) = "-"
            THEN Number(0 - DecimalValue(digits))
        ELSE Number(DecimalValue(digits))

\* Date.prototype.toISOString: the instant rendered as UTC text.
ToISOString(t) == <<t, "Z">>

-----------------------------------------------------------------------------
(* The events table *)

\* Mutant: the table created without the CHECK on door_number.
CheckTypeOnly(d, t) == t \in EVENT_TYPES

\* CHECK (door_number >= 1 AND door_number <= 26)
\* CHECK (event_type IN ('A_IN', 'A_OUT', 'B_IN', 'B_OUT'))
CheckConstraints(d, t) ==
    /\ d >= MIN_DOOR /\ d <= MAX_DOOR
    /\ t \in EVENT_TYPES

\* INSERT INTO events (door_number, event_type, timestamp_utc, created_at)
\* VALUES ($1, $2, NOW() AT TIME ZONE 'UTC', NOW() AT TIME ZONE 'UTC')
InsertedRow(d, t, id, clock) ==
    [id |-> id, door_number |-> d, event_type |-> t,
     timestamp_utc |-> clock, created_at |-> clock, deleted_at |-> NULL]

\* Mutant: a timestamp_utc of the request body is stored when there is one.
TimestampFromBody(body, clock) ==
    IF "timestamp_utc" \in DOMAIN body THEN body.timestamp_utc ELSE clock

\* The timestamp the INSERT of a request stores: NOW() AT TIME ZONE 'UTC' in
\* the VALUES list, the parameters being door_number and event_type only.
InsertTimestamp(body, clock) == clock

\* Mutant: the id is computed from the rows present, MAX(id) + 1, so the id
\* of a purged row is handed out again.
NextValFromRows(seq, rows) ==
    IF rows = {} THEN 1 ELSE Max({e.id : e \in rows}) + 1

\* id SERIAL: the id of a new row is the next value of the sequence, whatever
\* rows the table holds.
NextVal(seq, rows) == seq

\* Mutant: the sequence does not advance, two inserts draw the same id.
SequenceStuck(seq) == seq

\* The sequence value the INSERT draws, and the value left behind.
SequenceAfter(seq) == seq + 1

\* RETURNING / SELECT id, door_number, event_type, timestamp_utc
Project(e) ==
    [id |-> e.id, door_number |-> e.door_number,
     event_type |-> e.event_type, timestamp_utc |-> e.timestamp_utc]

\* Mutant: the UPDATE without `AND deleted_at IS NULL`.
SoftDeleteTargetsAnyState(rows, id) == {e \in rows : e.id = id}

\* UPDATE events ... WHERE id = $1 AND deleted_at IS NULL : the rows matched.
SoftDeleteTargets(rows, id) ==
    {e \in rows : e.id = id /\ e.deleted_at = NULL}

\* Mutant: the UPDATE also moves timestamp_utc of the row to the instant of
\* the undo.
SoftDeleteTouchesTimestamp(rows, id, clock) ==
    {IF e \in SoftDeleteTargets(rows, id)
        THEN [e EXCEPT !.deleted_at = clock, !.timestamp_utc = clock]
        ELSE e : e \in rows}

\* Mutant: the UPDATE marks every active row once the id matches one.
SoftDeleteEveryActive(rows, id, clock) ==
    IF SoftDeleteTargets(rows, id) = {} THEN rows
    ELSE {IF e.deleted_at = NULL
             THEN [e EXCEPT !.deleted_at = clock] ELSE e : e \in rows}

\* UPDATE events SET deleted_at = NOW() AT TIME ZONE 'UTC' WHERE ...
SoftDelete(rows, id, clock) ==
    {IF e \in SoftDeleteTargets(rows, id)
        THEN [e EXCEPT !.deleted_at = clock] ELSE e : e \in rows}

\* WHERE deleted_at IS NULL
ActiveRows(rows) == {e \in rows : e.deleted_at = NULL}

\* ORDER BY timestamp_utc DESC: every sequence holding each row of S once,
\* timestamps never increasing.  Rows with equal timestamps come in any
\* order, the statement names no second sort key.
OrderByTimestampDesc(S) ==
    {s \in [1..Cardinality(S) -> S] :
        /\ \A e \in S : \E i \in DOMAIN s : s[i] = e
        /\ \A i, j \in DOMAIN s :
              i < j => s[i].timestamp_utc >= s[j].timestamp_utc}

\* Mutant: the lookup filters on the door alone.
LastCandidatesAnyType(rows, d, t) ==
    {e \in rows : e.deleted_at = NULL /\ e.door_number = d}

\* WHERE door_number = $1 AND event_type = $2 AND deleted_at IS NULL
LastCandidates(rows, d, t) ==
    {e \in ActiveRows(rows) : e.door_number = d /\ e.event_type = t}

\* Mutant: the lookup without its ORDER BY, any candidate may come first.
SelectLastUnordered(rows, d, t) == LastCandidates(rows, d, t)

\* ... ORDER BY timestamp_utc DESC LIMIT 1: the rows the statement may
\* return, one of the candidates with the greatest timestamp.
SelectLast(rows, d, t) ==
    {e \in LastCandidates(rows, d, t) :
        \A f \in LastCandidates(rows, d, t) :
            f.timestamp_utc <= e.timestamp_utc}

\* Mutant: the DELETE spares soft-deleted rows (it follows the partial index
\* idx_events_cleanup, WHERE deleted_at IS NULL).
ExpiredActiveOnly(rows, clock) ==
    {e \in rows : /\ e.created_at < clock - DATA_RETENTION_DAYS
                  /\ e.deleted_at = NULL}

\* Mutant: `<=` for `<`, a row exactly 7 days old is deleted too.
ExpiredInclusive(rows, clock) ==
    {e \in rows : e.created_at <= clock - DATA_RETENTION_DAYS}

\* DELETE FROM events WHERE created_at < NOW() - INTERVAL '7 days'
Expired(rows, clock) ==
    {e \in rows : e.created_at < clock - DATA_RETENTION_DAYS}

\* Mutant: the DELETE removes one expired row per call (a batch of one).
DeleteExpiredOneRow(rows, clock) ==
    IF Expired(rows, clock) = {} THEN rows
    ELSE rows \ {CHOOSE e \in Expired(rows, clock) :
                    \A f \in Expired(rows, clock) : e.id <= f.id}

\* The table after the DELETE.
DeleteExpired(rows, clock) == rows \ Expired(rows, clock)

-----------------------------------------------------------------------------
(* POST /api/events *)

\* Mutant: the upper end of the range is off by one.
ValidDoorOffByOne(d) == ~(d < MIN_DOOR \/ d > MAX_DOOR + 1)

ValidDoor(d) == ~(d < MIN_DOOR \/ d > MAX_DOOR)

ValidType(t) == t \in EVENT_TYPES

\* The validation of the handler: "ok", or the error message of the 400.
Validate(body) ==
    IF Falsy(body, "door_number") \/ Falsy(body, "event_type")
        THEN "door_number and event_type are required"
    ELSE IF ~ValidDoor(body.door_number)
        THEN "door_number must be between 1 and 26"
    ELSE IF ~ValidType(body.event_type)
        THEN "event_type must be A_IN, A_OUT, B_IN, or B_OUT"
    ELSE "ok"

\* Mutant: the handler answers 201 without awaiting the INSERT, so a request
\* made while the database is unreachable is confirmed although no row exists.
PostEventOptimistic(body) ==
    /\ IF Validate(body) # "ok"
          THEN /\ resp' = Response("record", body, 400, Validate(body))
               /\ UNCHANGED <<events, nextId, recorded>>
          ELSE LET d == body.door_number
                   t == body.event_type
                   row == InsertedRow(d, t, nextId, InsertTimestamp(body, now))
               IN  /\ nextId <= MaxId
                   /\ resp' = Response("record", body, 201, Project(row))
                   /\ IF storeUp /\ CheckConstraints(d, t)
                         THEN /\ events' = events \cup {row}
                              /\ nextId' = SequenceAfter(nextId)
                              /\ recorded' = recorded + 1
                         ELSE UNCHANGED <<events, nextId, recorded>>
    /\ UNCHANGED <<now, storeUp, pending, undoAcks, purged>>
    /\ UNCHANGED poolVars

\* Mutant: the INSERT is wrapped in a retry that takes a slow answer for a
\* failure and runs the statement again: two rows for one request.
PostEventInsertsTwice(body) ==
    /\ IF Validate(body) # "ok"
          THEN /\ resp' = Response("record", body, 400, Validate(body))
               /\ UNCHANGED <<events, nextId, recorded>>
          ELSE LET d == body.door_number
                   t == body.event_type
                   first == InsertedRow(d, t, nextId, now)
                   row == InsertedRow(d, t, nextId + 1, now)
               IN  IF storeUp /\ CheckConstraints(d, t)
                      THEN /\ nextId + 1 <= MaxId
                           /\ events' = events \cup {first, row}
                           /\ nextId' = nextId + 2
                           /\ resp' = Response("record", body, 201,
                                                    Project(row))
                           /\ recorded' = recorded + 1
                      ELSE /\ resp' = Response("record", body, 500,
                                               "Failed to create event")
                           /\ UNCHANGED <<events, nextId, recorded>>
    /\ UNCHANGED <<now, storeUp, pending, undoAcks, purged>>
    /\ UNCHANGED poolVars

\* Validate; INSERT; 201 with the returned row, or 500 when the query throws.
PostEvent(body) ==
    /\ IF Validate(body) # "ok"
          THEN /\ resp' = Response("record", body, 400, Validate(body))
               /\ UNCHANGED <<events, nextId, recorded>>
          ELSE LET d == body.door_number
                   t == body.event_type
                   row == InsertedRow(d, t, NextVal(nextId, events),
                                      InsertTimestamp(body, now))
               IN  IF storeUp /\ CheckConstraints(d, t)
                      THEN /\ nextId <= MaxId
                           /\ events' = events \cup {row}
                           /\ nextId' = SequenceAfter(nextId)
                           /\ resp' = Response("record", body, 201,
                                                    Project(row))
                           /\ recorded' = recorded + 1
                      ELSE /\ resp' = Response("record", body, 500,
                                               "Failed to create event")
                           /\ UNCHANGED <<events, nextId, recorded>>
    /\ UNCHANGED <<now, storeUp, pending, undoAcks, purged>>
    /\ UNCHANGED poolVars

-----------------------------------------------------------------------------
(* DELETE /api/events/:id *)

\* Mutant: the handler toggles the marker, a second undo restores the event.
DeleteHandlerToggle(req) ==
    /\ IF \E e \in events : e.id = req.id
          THEN /\ events' = {IF e.id = req.id
                                THEN [e EXCEPT !.deleted_at =
                                        IF @ = NULL THEN now ELSE NULL]
                                ELSE e : e \in events}
               /\ resp' = Response("undo", req, 204, "")
               /\ undoAcks' = [undoAcks EXCEPT ![req.id] = 1]
          ELSE /\ resp' = Response("undo", req, 404,
                                   "Event not found or already deleted")
               /\ UNCHANGED <<events, undoAcks>>
    /\ UNCHANGED <<nextId, now, storeUp, recorded, purged>>
    /\ UNCHANGED poolVars

\* UPDATE; 204 when it returned a row, 404 when it returned none, 500 when
\* the query throws.
DeleteHandler(req) ==
    /\ IF ~storeUp
          THEN /\ resp' = Response("undo", req, 500, "Failed to delete event")
               /\ UNCHANGED <<events, undoAcks>>
       ELSE IF SoftDeleteTargets(events, req.id) = {}
          THEN /\ resp' = Response("undo", req, 404,
                                   "Event not found or already deleted")
               /\ UNCHANGED <<events, undoAcks>>
       ELSE /\ events' = SoftDelete(events, req.id, now)
            /\ resp' = Response("undo", req, 204, "")
            /\ undoAcks' = [undoAcks EXCEPT ![req.id] = @ + 1]
    /\ UNCHANGED <<nextId, now, storeUp, recorded, purged>>
    /\ UNCHANGED poolVars

\* Undo by id: the client sends the id it stored after a click.
DeleteEvent(id) ==
    /\ DeleteHandler(UndoRequest(0, "", id))
    /\ UNCHANGED pending

-----------------------------------------------------------------------------
(* GET /api/events/recent *)

DEFAULT_LIMIT == 10

\* parseInt(req.query.limit) || 10 : NaN (also of a missing parameter) and 0
\* are falsy and give 10, every other number is passed on as it is.
RecentLimit(query) ==
    LET n == IF "limit" \in DOMAIN query THEN ParseInt(query.limit) ELSE NaN
    IN  IF n.nan \/ n.value = 0 THEN DEFAULT_LIMIT ELSE n.value

\* The first n elements of a sequence, all of it when it is shorter.
Limit(seq, n) == SubSeq(seq, 1, IF n < Len(seq) THEN n ELSE Len(seq))

\* Mutant: the statement without its LIMIT.
SelectRecentUncapped(rows, limit) ==
    {[i \in DOMAIN s |-> Project(s[i])] :
        s \in OrderByTimestampDesc(ActiveRows(rows))}

\* SELECT ... WHERE deleted_at IS NULL ORDER BY timestamp_utc DESC LIMIT $1
SelectRecent(rows, limit) ==
    {Limit([i \in DOMAIN s |-> Project(s[i])], limit) :
        s \in OrderByTimestampDesc(ActiveRows(rows))}

\* 200 with the rows of the statement; 500 when the query throws, which it
\* does on a negative LIMIT too ("LIMIT must not be negative").
GetRecent(query) ==
    /\ IF storeUp /\ RecentLimit(query) >= 0
          THEN \E rows \in SelectRecent(events, RecentLimit(query)) :
                  resp' = Response("recent", query, 200, [events |-> rows])
          ELSE resp' = Response("recent", query, 500,
                                "Failed to fetch events")
    /\ UNCHANGED <<events, nextId, now, storeUp, pending,
                   recorded, undoAcks, purged>>
    /\ UNCHANGED poolVars

-----------------------------------------------------------------------------
(* GET /api/events/last and the undo of a button *)

\* The handler: 400 when a parameter is missing, 404 when the statement
\* returns no row, else 200 with the row it returned.
LastResponses(query) ==
    IF Falsy(query, "door_number") \/ Falsy(query, "event_type")
        THEN {Response("last", query, 400,
                       "door_number and event_type are required")}
    ELSE IF ~storeUp
        THEN {Response("last", query, 500, "Failed to fetch last event")}
    ELSE IF SelectLast(events, query.door_number, query.event_type) = {}
        THEN {Response("last", query, 404, "No events found for this button")}
    ELSE {Response("last", query, 200, Project(e)) :
            e \in SelectLast(events, query.door_number, query.event_type)}

\* Client c looks up the last event of a button; on 200 it goes on to undo
\* the id it was given.
GetLast(c, query) ==
    /\ pending[c] = Idle
    /\ \E r \in LastResponses(query) :
          /\ resp' = r
          /\ pending' = [pending EXCEPT ![c] =
                 IF r.status = 200
                    THEN UndoRequest(query.door_number, query.event_type,
                                     r.body.id)
                    ELSE Idle]
    /\ UNCHANGED <<events, nextId, now, storeUp, recorded, undoAcks, purged>>
    /\ UNCHANGED poolVars

\* Client c sends the DELETE for the id its lookup returned.
UndoLastDelete(c) ==
    /\ pending[c].op = "undo"
    /\ DeleteHandler(pending[c])
    /\ pending' = [pending EXCEPT ![c] = Idle]

-----------------------------------------------------------------------------
(* GET /api/events/export *)

\* One CSV line of a row of the result.
CsvLine(row) ==
    <<row.id, row.door_number, row.event_type, ToISOString(row.timestamp_utc)>>

CsvHeader == <<"id", "door_number", "event_type", "timestamp_utc">>

\* The CSV of a result: the header line, then one line per row.
Csv(rows) == <<CsvHeader>> \o [i \in DOMAIN rows |-> CsvLine(rows[i])]

\* Mutant: the export without `WHERE deleted_at IS NULL`.
SelectExportAllRows(rows) ==
    {[i \in DOMAIN s |-> Project(s[i])] : s \in OrderByTimestampDesc(rows)}

\* SELECT ... FROM events WHERE deleted_at IS NULL ORDER BY timestamp_utc DESC
SelectExport(rows) ==
    {[i \in DOMAIN s |-> Project(s[i])] :
        s \in OrderByTimestampDesc(ActiveRows(rows))}

GetExport ==
    /\ IF storeUp
          THEN \E rows \in SelectExport(events) :
                  resp' = Response("export", "", 200, Csv(rows))
          ELSE resp' = Response("export", "", 500, "Failed to export events")
    /\ UNCHANGED <<events, nextId, now, storeUp, pending,
                   recorded, undoAcks, purged>>
    /\ UNCHANGED poolVars

-----------------------------------------------------------------------------
(* POST /api/cleanup and the daily job *)

\* The result of the DELETE ... RETURNING id: the rows left in the table and
\* result.rowCount, the number of rows deleted.
DeleteResult(rows, clock) ==
    [rows |-> DeleteExpired(rows, clock),
     rowCount |-> Cardinality(Expired(rows, clock))]

\* The response carries result.rowCount as deleted_count.
PostCleanup ==
    /\ IF storeUp
          THEN /\ events' = DeleteResult(events, now).rows
               /\ resp' = Response("cleanup", "", 200,
                                   DeleteResult(events, now).rowCount)
               /\ purged' = purged + DeleteResult(events, now).rowCount
          ELSE /\ resp' = Response("cleanup", "", 500, "Cleanup failed")
               /\ UNCHANGED <<events, purged>>
    /\ UNCHANGED <<nextId, now, storeUp, pending, recorded, undoAcks>>
    /\ UNCHANGED poolVars

\* A line of the job's log: it answers no request and has no status.
LogLine(text, n) == [op |-> "cron", req |-> "", status |-> 0,
                     body |-> [line |-> text, deleted |-> n]]

\* Mutant: the job without its try/catch: the rejection of the query ends the
\* task, and no later fire runs.
CronCleanupDiesOnFailure ==
    /\ ~(resp.op = "cron" /\ resp.body.line = "Scheduled cleanup failed")
    /\ IF storeUp
          THEN /\ events' = DeleteResult(events, now).rows
               /\ purged' = purged + DeleteResult(events, now).rowCount
               /\ resp' = LogLine("Cleanup job completed",
                                  DeleteResult(events, now).rowCount)
          ELSE /\ resp' = LogLine("Scheduled cleanup failed", 0)
               /\ UNCHANGED <<events, purged>>
    /\ UNCHANGED <<nextId, now, storeUp, pending, recorded, undoAcks>>
    /\ UNCHANGED poolVars

\* Mutant: the job's DELETE with `<=` for `<`.
CronCleanupInclusive ==
    /\ IF storeUp
          THEN /\ events' = events \ ExpiredInclusive(events, now)
               /\ purged' = purged
                               + Cardinality(ExpiredInclusive(events, now))
               /\ resp' = LogLine("Cleanup job completed",
                                  Cardinality(ExpiredInclusive(events, now)))
          ELSE /\ resp' = LogLine("Scheduled cleanup failed", 0)
               /\ UNCHANGED <<events, purged>>
    /\ UNCHANGED <<nextId, now, storeUp, pending, recorded, undoAcks>>
    /\ UNCHANGED poolVars

\* cron.schedule('0 0 * * *'): one fire of the job.  It runs the DELETE once
\* and logs its count; when the query throws it logs the error, and that is
\* all.
CronCleanup ==
    /\ IF storeUp
          THEN /\ events' = DeleteResult(events, now).rows
               /\ purged' = purged + DeleteResult(events, now).rowCount
               /\ resp' = LogLine("Cleanup job completed",
                                  DeleteResult(events, now).rowCount)
          ELSE /\ resp' = LogLine("Scheduled cleanup failed", 0)
               /\ UNCHANGED <<events, purged>>
    /\ UNCHANGED <<nextId, now, storeUp, pending, recorded, undoAcks>>
    /\ UNCHANGED poolVars

-----------------------------------------------------------------------------
(* The environment *)

\* Time passes: the clock moves to the next instant of ClockDays.
Tick ==
    /\ \E t \in ClockDays : t > now
    /\ now' = Min({t \in ClockDays : t > now})
    /\ UNCHANGED <<events, nextId, storeUp, pending, resp,
                   recorded, undoAcks, purged>>
    /\ UNCHANGED poolVars

\* The database becomes unreachable: from now on pool.query rejects and each
\* handler runs its catch block.
StoreFails ==
    /\ storeUp
    /\ storeUp' = FALSE
    /\ UNCHANGED <<events, nextId, now, pending, resp,
                   recorded, undoAcks, purged>>
    /\ UNCHANGED poolVars

\* The database is reachable again.
StoreRecovers ==
    /\ ~storeUp
    /\ storeUp' = TRUE
    /\ UNCHANGED <<events, nextId, now, pending, resp,
                   recorded, undoAcks, purged>>
    /\ UNCHANGED poolVars

\* An INSERT INTO events (door_number, event_type) run on the database by
\* another session, the handler's validation bypassed: the columns not named
\* take their defaults.  The table accepts the row only when its CHECK
\* constraints hold; the sequence value drawn for a rejected row is not
\* given back.
DirectInsert(d, t) ==
    /\ storeUp
    /\ nextId <= MaxId
    /\ nextId' = SequenceAfter(nextId)
    /\ IF CheckConstraints(d, t)
          THEN /\ events' = events \cup {InsertedRow(d, t, nextId, now)}
               /\ resp' = Response("sql", [door_number |-> d,
                                           event_type |-> t], 0, "INSERT 0 1")
          ELSE /\ events' = events
               /\ resp' = Response("sql", [door_number |-> d,
                                           event_type |-> t], 0,
                                   "violates check constraint")
    /\ UNCHANGED <<now, storeUp, pending, recorded, undoAcks, purged>>
    /\ UNCHANGED poolVars

-----------------------------------------------------------------------------
(* startServer, initializeDatabaseIfNeeded and the connection pool *)

\* The calls the server has accepted and not answered.
Outstanding == queued + running + hung

\* const client = await pool.connect(): the initialisation checks a
\* connection out, or the pool gives up and startServer exits.
Connect ==
    /\ phase = "starting"
    /\ \/ /\ inUse < POOL_MAX
          /\ inUse' = inUse + 1
          /\ phase' = "checking"
       \/ /\ phase' = "exited"
          /\ UNCHANGED inUse
    /\ UNCHANGED <<tableExists, indexes, queued, running, hung, arrived>>
    /\ UNCHANGED <<dataVars, peer>>

\* The variant of TableCheck whose failure path keeps the connection.
TableCheckKeepsClientOnError ==
    /\ phase = "checking"
    /\ \/ /\ tableExists
          /\ phase' = "ready"
          /\ inUse' = inUse - 1
       \/ /\ ~tableExists
          /\ phase' = "creating"
          /\ UNCHANGED inUse
       \/ /\ phase' = "exited"
          /\ UNCHANGED inUse
    /\ UNCHANGED <<tableExists, indexes, queued, running, hung, arrived>>
    /\ UNCHANGED <<dataVars, peer>>

\* The SELECT EXISTS on information_schema.tables.  A table found ends the
\* initialisation; a statement that fails is rethrown; the finally block
\* releases the connection on both ways out.
TableCheck ==
    /\ phase = "checking"
    /\ \/ /\ tableExists
          /\ phase' = "ready"
          /\ inUse' = inUse - 1
       \/ /\ ~tableExists
          /\ phase' = "creating"
          /\ UNCHANGED inUse
       \/ /\ phase' = "exited"
          /\ inUse' = inUse - 1
    /\ UNCHANGED <<tableExists, indexes, queued, running, hung, arrived>>
    /\ UNCHANGED <<dataVars, peer>>

\* CREATE TABLE events: refused by the database when the table exists.
CreateTable ==
    /\ phase = "creating"
    /\ \/ /\ ~tableExists
          /\ tableExists' = TRUE
          /\ indexes' = 0
          /\ phase' = "indexing"
          /\ UNCHANGED inUse
       \/ /\ phase' = "exited"
          /\ inUse' = inUse - 1
          /\ UNCHANGED <<tableExists, indexes>>
    /\ UNCHANGED <<queued, running, hung, arrived>>
    /\ UNCHANGED <<dataVars, peer>>

\* The CREATE INDEX statements, one after the other; the last one ends the
\* initialisation.
CreateIndex ==
    /\ phase = "indexing"
    /\ \/ /\ indexes' = indexes + 1
          /\ IF indexes' = INDEX_COUNT
                THEN phase' = "ready" /\ inUse' = inUse - 1
                ELSE UNCHANGED <<phase, inUse>>
       \/ /\ phase' = "exited"
          /\ inUse' = inUse - 1
          /\ UNCHANGED indexes
    /\ UNCHANGED <<tableExists, queued, running, hung, arrived>>
    /\ UNCHANGED <<dataVars, peer>>

\* The variant of Listen that does not await the initialisation.
ListenWithoutAwait ==
    /\ phase \in {"starting", "checking", "creating", "indexing", "ready"}
    /\ phase' = "listening"
    /\ UNCHANGED <<tableExists, indexes, inUse, queued, running, hung, arrived>>
    /\ UNCHANGED <<dataVars, peer>>

\* app.listen, after the awaited initialisation has returned.
Listen ==
    /\ phase = "ready"
    /\ phase' = "listening"
    /\ UNCHANGED <<tableExists, indexes, inUse, queued, running, hung, arrived>>
    /\ UNCHANGED <<dataVars, peer>>

\* A request reaches a handler, which calls pool.query: the statement is
\* sent on a free connection, or the call waits for one.
CallArrives ==
    /\ phase = "listening"
    /\ arrived < MaxCalls
    /\ arrived' = arrived + 1
    /\ IF inUse < POOL_MAX
          THEN /\ inUse' = inUse + 1
               /\ running' = running + 1
               /\ UNCHANGED queued
          ELSE /\ queued' = queued + 1
               /\ UNCHANGED <<inUse, running>>
    /\ UNCHANGED <<phase, tableExists, indexes, hung>>
    /\ UNCHANGED <<dataVars, peer>>

\* connectionTimeoutMillis: a call that has waited 2 seconds for a
\* connection is rejected, and its handler answers 500.
AcquireTimeout ==
    /\ queued > 0
    /\ queued' = queued - 1
    /\ UNCHANGED <<phase, tableExists, indexes, inUse, running, hung, arrived>>
    /\ UNCHANGED <<dataVars, peer>>

\* The database answers a statement, with rows or with an error: the pool
\* takes the connection back and hands it to the call that waits longest.
QueryReturns ==
    /\ running > 0
    /\ IF queued > 0
          THEN /\ queued' = queued - 1
               /\ UNCHANGED <<inUse, running>>
          ELSE /\ running' = running - 1
               /\ inUse' = inUse - 1
               /\ UNCHANGED queued
    /\ UNCHANGED <<phase, tableExists, indexes, hung, arrived>>
    /\ UNCHANGED <<dataVars, peer>>

\* The database stops answering a statement it was sent (it waits for a lock
\* another session holds, or the network drops the answer).  The pool sets
\* no query_timeout and no statement_timeout: nothing ends the call.
StoreStalls ==
    /\ running > 0
    /\ running' = running - 1
    /\ hung' = hung + 1
    /\ UNCHANGED <<phase, tableExists, indexes, inUse, queued, arrived>>
    /\ UNCHANGED <<dataVars, peer>>

\* The database answers a stalled statement after all.
StalledReturns ==
    /\ hung > 0
    /\ hung' = hung - 1
    /\ IF queued > 0
          THEN /\ queued' = queued - 1
               /\ running' = running + 1
               /\ UNCHANGED inUse
          ELSE /\ inUse' = inUse - 1
               /\ UNCHANGED <<queued, running>>
    /\ UNCHANGED <<phase, tableExists, indexes, arrived>>
    /\ UNCHANGED <<dataVars, peer>>

-----------------------------------------------------------------------------
(* A second server process started on the same database.  It has a pool of *)
(* its own; the table is what the two share.                               *)

\* The pool variables of the first process.
ownVars == <<phase, inUse, queued, running, hung, arrived>>

\* pool.connect() of the second process.
PeerConnect ==
    /\ peer = "starting"
    /\ peer' \in {"checking", "exited"}
    /\ UNCHANGED <<tableExists, indexes, ownVars, dataVars>>

\* Its SELECT EXISTS on information_schema.tables.
PeerTableCheck ==
    /\ peer = "checking"
    /\ \/ tableExists /\ peer' = "ready"
       \/ ~tableExists /\ peer' = "creating"
       \/ peer' = "exited"
    /\ UNCHANGED <<tableExists, indexes, ownVars, dataVars>>

\* Its CREATE TABLE events: refused by the database when the table exists.
PeerCreateTable ==
    /\ peer = "creating"
    /\ \/ /\ ~tableExists
          /\ tableExists' = TRUE
          /\ indexes' = 0
          /\ peer' = "indexing"
       \/ /\ peer' = "exited"
          /\ UNCHANGED <<tableExists, indexes>>
    /\ UNCHANGED <<ownVars, dataVars>>

\* Its CREATE INDEX statements.
PeerCreateIndex ==
    /\ peer = "indexing"
    /\ \/ /\ indexes' = indexes + 1
          /\ peer' = IF indexes' = INDEX_COUNT THEN "ready" ELSE "indexing"
       \/ /\ peer' = "exited"
          /\ UNCHANGED indexes
    /\ UNCHANGED <<tableExists, ownVars, dataVars>>

\* Its app.listen.
PeerListen ==
    /\ peer = "ready"
    /\ peer' = "listening"
    /\ UNCHANGED <<tableExists, indexes, ownVars, dataVars>>

-----------------------------------------------------------------------------

Init ==
    /\ events = {}
    /\ nextId = 1
    /\ now = 0
    /\ storeUp = TRUE
    /\ pending = [c \in AllClients |-> Idle]
    /\ resp = NoResponse
    /\ recorded = 0
    /\ undoAcks = [i \in UndoIds |-> 0]
    /\ purged = 0
    /\ phase = "listening"
    /\ tableExists = TRUE
    /\ indexes = INDEX_COUNT
    /\ inUse = 0 /\ queued = 0 /\ running = 0 /\ hung = 0
    /\ arrived = 0
    /\ peer = "off"

Next ==
    \/ \E body \in RecordBodies : PostEvent(body)
    \/ \E id \in UndoIds : DeleteEvent(id)
    \/ \E c \in Clients, query \in LastQueries : GetLast(c, query)
    \/ \E c \in Clients : UndoLastDelete(c)
    \/ \E query \in RecentQueries : GetRecent(query)
    \/ GetExport
    \/ PostCleanup
    \/ CronCleanup
    \/ Tick

\* The server with the table in place, listening, its pool idle between the
\* steps; a database that answers every statement.
Spec == Init /\ [][Next]_vars

\* The server with a database that may be unreachable at any time.
NextOutage == Next \/ StoreFails \/ StoreRecovers

SpecOutage == Init /\ [][NextOutage]_vars

\* The server next to sessions that write to the table directly.
NextBypass ==
    \/ Next
    \/ \E d \in DirectDoors, t \in DirectTypes : DirectInsert(d, t)

SpecBypass == Init /\ [][NextBypass]_vars

\* The same server when an outage of the database always ends and the daily
\* job keeps firing: a fire that finds the database up is not put off for
\* ever.
SpecScheduled ==
    /\ SpecOutage
    /\ WF_vars(StoreRecovers)
    /\ SF_vars(CronCleanup /\ storeUp)

\* The server with two clients that undo buttons at the same time.
NextTwoUndo ==
    \/ Next
    \/ \E query \in Buttons : GetLast(Rival, query)
    \/ UndoLastDelete(Rival)

SpecTwoUndo == Init /\ [][NextTwoUndo]_vars

\* The server process from its start, on a database that may or may not
\* have the table (with some or all of its indexes), and the calls of its
\* handlers on the pool.
InitPool ==
    /\ events = {}
    /\ nextId = 1
    /\ now = 0
    /\ storeUp = TRUE
    /\ pending = [c \in AllClients |-> Idle]
    /\ resp = NoResponse
    /\ recorded = 0
    /\ undoAcks = [i \in UndoIds |-> 0]
    /\ purged = 0
    /\ phase = "starting"
    /\ tableExists \in BOOLEAN
    /\ indexes \in (IF tableExists THEN 0..INDEX_COUNT ELSE {0})
    /\ inUse = 0 /\ queued = 0 /\ running = 0 /\ hung = 0
    /\ arrived = 0
    /\ peer = "off"

NextPool ==
    \/ Connect
    \/ TableCheck
    \/ CreateTable
    \/ CreateIndex
    \/ Listen
    \/ CallArrives
    \/ AcquireTimeout
    \/ QueryReturns
    \/ StoreStalls
    \/ StalledReturns

SpecPool == InitPool /\ [][NextPool]_vars

\* The same when the process and the pool keep running and the database
\* answers the statements it has not stalled.
SpecPoolFair ==
    /\ SpecPool
    /\ WF_vars(Connect) /\ WF_vars(TableCheck) /\ WF_vars(CreateTable)
    /\ WF_vars(CreateIndex) /\ WF_vars(Listen)
    /\ WF_vars(AcquireTimeout)
    /\ WF_vars(QueryReturns)

\* Two server processes started at the same time on a database without
\* the table.
InitTwoInstances ==
    /\ events = {}
    /\ nextId = 1
    /\ now = 0
    /\ storeUp = TRUE
    /\ pending = [c \in AllClients |-> Idle]
    /\ resp = NoResponse
    /\ recorded = 0
    /\ undoAcks = [i \in UndoIds |-> 0]
    /\ purged = 0
    /\ phase = "starting"
    /\ tableExists = FALSE
    /\ indexes = 0
    /\ inUse = 0 /\ queued = 0 /\ running = 0 /\ hung = 0
    /\ arrived = 0
    /\ peer = "starting"

NextTwoInstances ==
    \/ NextPool
    \/ PeerConnect
    \/ PeerTableCheck
    \/ PeerCreateTable
    \/ PeerCreateIndex
    \/ PeerListen

SpecTwoInstances == InitTwoInstances /\ [][NextTwoInstances]_vars

-----------------------------------------------------------------------------
(* Properties *)

Ids(rows) == {e.id : e \in rows}

\* The sum of f over the finite set S of its arguments.
RECURSIVE Sum(_, _)
Sum(f, S) ==
    IF S = {} THEN 0
    ELSE LET x == CHOOSE y \in S : TRUE IN f[x] + Sum(f, S \ {x})

\* A record request the contract calls invalid: the door is missing or
\* outside 1..26, or the type is missing or not one of the four.
InvalidRecordBody(body) ==
    \/ "door_number" \notin DOMAIN body
    \/ "event_type" \notin DOMAIN body
    \/ body.door_number \notin 1..26
    \/ body.event_type \notin {"A_IN", "A_OUT", "B_IN", "B_OUT"}

\* C1: a record request with a door outside 1..26 or a type outside the four
\* event types is answered 400 (ValidationError), runs no statement and
\* leaves the table and its sequence as they were.
C1_InvalidRecordRejected ==
    [][\A body \in RecordBodies :
          (InvalidRecordBody(body) /\ PostEvent(body)) =>
              /\ resp'.op = "record" /\ resp'.req = body
              /\ resp'.status = 400
              /\ events' = events
              /\ nextId' = nextId]_vars

\* C1 witness: door 27 was refused while rows were persisted.
C1_Witness ==
    /\ resp.op = "record" /\ resp.status = 400
    /\ "door_number" \in DOMAIN resp.req /\ resp.req.door_number = 27
    /\ events # {}

\* C2: record requests with valid inputs, run in any order, each add exactly
\* one row with an id no other row has: the rows in the table plus the rows
\* purged are as many as the requests answered 201, and ids are pairwise
\* distinct.
C2_NoRecordLostOrDuplicated ==
    /\ [](/\ Cardinality(events) + purged = recorded
          /\ \A e, f \in events : e.id = f.id => e = f)
    /\ [][\A body \in RecordBodies :
            (~InvalidRecordBody(body) /\ PostEvent(body)) =>
                /\ resp'.status = 201
                /\ resp'.body.id \notin Ids(events)
                /\ \E e \in events' :
                      /\ events' = events \cup {e} /\ e \notin events
                      /\ Project(e) = resp'.body
                      /\ e.door_number = body.door_number
                      /\ e.event_type = body.event_type]_vars

\* C2 witness: two requests for the same button at the same instant, both
\* rows present.
C2_Witness ==
    /\ recorded >= 2
    /\ \E e, f \in events :
          /\ e.id # f.id
          /\ e.door_number = f.door_number /\ e.event_type = f.event_type
          /\ e.timestamp_utc = f.timestamp_utc

\* C3: of the undo requests for one id, at most one is answered 204; an undo
\* whose DELETE is in flight while another undo of the same id is answered
\* 204 gets 404 and changes nothing; a deleted_at once set keeps its value.
C3_ConcurrentUndoOnce ==
    /\ [](\A i \in UndoIds : undoAcks[i] <= 1)
    /\ [][\A c \in Clients :
            (UndoLastDelete(c) /\ undoAcks[pending[c].id] >= 1) =>
                resp'.status = 404 /\ events' = events]_vars
    /\ [][\A e \in events : e.deleted_at # NULL =>
            \A f \in events' : f.id = e.id => f.deleted_at = e.deleted_at]_vars

\* C3 witness: the loser of the race got 404 for an id whose other undo was
\* acknowledged.
C3_Witness ==
    /\ resp.op = "undo" /\ resp.status = 404
    /\ resp.req.door_number # 0
    /\ undoAcks[resp.req.id] = 1
    /\ \E e \in events : e.id = resp.req.id /\ e.deleted_at # NULL

\* C4: once an undo of an id has been answered 204, every later undo of that
\* id is answered 404 (NotFoundError), whatever ran in between.
C4_UndoOneWay ==
    [][\A i \in UndoIds :
          (undoAcks[i] >= 1 /\ DeleteEvent(i)) =>
              resp'.status = 404 /\ events' = events]_vars

\* C4 witness: an undo by id failed for an id undone earlier, after a later
\* record and a cleanup that purged the row.
C4_Witness ==
    /\ resp.op = "undo" /\ resp.status = 404
    /\ resp.req.door_number = 0
    /\ undoAcks[resp.req.id] = 1
    /\ resp.req.id \notin Ids(events)
    /\ events # {}

\* The lifecycle state of an id.
LifeState(rows, seq, id) ==
    IF \E e \in rows : e.id = id /\ e.deleted_at = NULL THEN "ACTIVE"
    ELSE IF \E e \in rows : e.id = id THEN "DELETED"
    ELSE IF id < seq THEN "PURGED"
    ELSE "UNBORN"

LifeSteps ==
    {<<"UNBORN", "ACTIVE">>, <<"ACTIVE", "DELETED">>,
     <<"ACTIVE", "PURGED">>, <<"DELETED", "PURGED">>}

\* C5: a deleted_at that is set is never reset to null, and an id only moves
\* ACTIVE -> DELETED -> purged or ACTIVE -> purged.
C5_NoWayBackToActive ==
    [][\A i \in 1..MaxId :
          LET before == LifeState(events, nextId, i)
              after == LifeState(events', nextId', i)
          IN  before = after \/ <<before, after>> \in LifeSteps]_vars

\* C5 witness: one id went ACTIVE -> DELETED -> purged, and an undo of it was
\* tried afterwards.
C5_Witness ==
    /\ \E i \in 1..MaxId :
          /\ LifeState(events, nextId, i) = "PURGED"
          /\ undoAcks[i] = 1
          /\ resp.op = "undo" /\ resp.req.id = i
    /\ \E e \in events : e.deleted_at # NULL

\* The active rows of a button.
ActiveOfButton(rows, d, t) ==
    {e \in rows : e.door_number = d /\ e.event_type = t /\ e.deleted_at = NULL}

\* Of the active rows of a button with the greatest timestamp, the greatest id.
LastByTimestampThenId(rows, d, t) ==
    Max({e.id : e \in {x \in ActiveOfButton(rows, d, t) :
                         \A y \in ActiveOfButton(rows, d, t) :
                             y.timestamp_utc <= x.timestamp_utc}})

\* C6: when active events of one button share the greatest timestamp, the
\* lookup of undo-last returns the one with the greatest id.
C6_TieBreakByGreatestId ==
    [][\A c \in Clients, query \in Buttons :
          (GetLast(c, query) /\ resp'.status = 200) =>
              resp'.body.id = LastByTimestampThenId(
                  events, query.door_number, query.event_type)]_vars

\* C7: the undo of a button (lookup, then DELETE of the id found) changes no
\* row of another button; the rows of other buttons that were active stay
\* active.
C7_UndoLastIsolation ==
    /\ [][\A c \in Clients, query \in LastQueries :
            GetLast(c, query) => events' = events]_vars
    /\ [][\A c \in Clients :
            UndoLastDelete(c) =>
                \A e \in events :
                    (\/ e.door_number # pending[c].door_number
                     \/ e.event_type # pending[c].event_type)
                        => e \in events']_vars

\* C7 witness: the undo of a button was acknowledged while an event of
\* another button is active.
C7_Witness ==
    /\ resp.op = "undo" /\ resp.status = 204
    /\ resp.req.door_number # 0
    /\ \E e \in events :
          /\ e.deleted_at = NULL
          /\ (\/ e.door_number # resp.req.door_number
              \/ e.event_type # resp.req.event_type)
          /\ \E f \in events :
                /\ f.id = resp.req.id /\ f.deleted_at # NULL
                /\ e.timestamp_utc >= f.timestamp_utc

\* The lines of an export after the header.
ExportLines == Tail(resp.body)

\* C8: after N record calls answered 201 and M undo calls answered 204
\* (M < N, nothing purged), the export holds exactly N - M lines, each the
\* line of an active event and of no other line's event, none of a
\* soft-deleted event, timestamps never increasing.
C8_ExportCompleteness ==
    (/\ resp.op = "export" /\ resp.status = 200
     /\ purged = 0
     /\ Sum(undoAcks, UndoIds) < recorded)
    =>
    /\ Len(ExportLines) = recorded - Sum(undoAcks, UndoIds)
    /\ \A i \in DOMAIN ExportLines :
          \E e \in events :
              /\ e.deleted_at = NULL
              /\ ExportLines[i] = <<e.id, e.door_number, e.event_type,
                                    ToISOString(e.timestamp_utc)>>
    /\ \A i, j \in DOMAIN ExportLines :
          /\ i # j => ExportLines[i][1] # ExportLines[j][1]
          /\ i < j => ExportLines[i][4][1] >= ExportLines[j][4][1]
    /\ resp.body[1] = <<"id", "door_number", "event_type", "timestamp_utc">>

\* C8 witness: an export of one line after two records and one undo.
C8_Witness ==
    /\ resp.op = "export" /\ resp.status = 200
    /\ purged = 0 /\ recorded = 2 /\ Sum(undoAcks, UndoIds) = 1
    /\ Len(ExportLines) = 1

\* The age of a row in days.
Age(e) == now - e.created_at

\* C9: a cleanup removes exactly the rows more than DATA_RETENTION_DAYS (7)
\* days old, active or soft-deleted, leaves every other row as it was, and
\* returns the number of rows removed.
C9_CleanupRemovesExactlyExpired ==
    /\ [][PostCleanup =>
            /\ events' = {e \in events : Age(e) <= 7}
            /\ resp'.status = 200
            /\ resp'.body = Cardinality({e \in events : Age(e) > 7})]_vars
    /\ [][CronCleanup => events' = {e \in events : Age(e) <= 7}]_vars

\* C9 witness: a cleanup removed a soft-deleted row 8 days old and kept a row
\* 7 days old.
C9_Witness ==
    /\ resp.op = "cleanup" /\ resp.body = 1
    /\ \E i \in 1..MaxId : i \notin Ids(events) /\ undoAcks[i] = 1
    /\ \E e \in events : Age(e) = 7

\* C10: a cleanup right after a cleanup, at the same instant and with no
\* record in between, removes no row and returns 0, the table stays as the
\* first cleanup left it.
C10_CleanupIdempotent ==
    [][(PostCleanup \/ CronCleanup) =>
          /\ DeleteResult(events', now').rowCount = 0
          /\ DeleteResult(events', now').rows = events']_vars

\* C10 witness: a cleanup returned 0 after an earlier one had purged rows,
\* with rows left in the table.
C10_Witness ==
    /\ resp.op = "cleanup" /\ resp.status = 200 /\ resp.body = 0
    /\ purged >= 1
    /\ events # {}

\* C11: a 201 of record always carries the id of a row the same request
\* inserted, with the values of that row; when the INSERT fails (the database
\* is unreachable) the request is answered with a failure and no row is added.
C11_NoPhantomConfirmation ==
    /\ [][\A body \in RecordBodies :
            PostEvent(body) =>
                /\ resp'.status = 201 =>
                      \E e \in events' \ events :
                          /\ e.id = resp'.body.id
                          /\ Project(e) = resp'.body
                          /\ events' = events \cup {e}
                /\ resp'.status # 201 => events' = events
                /\ ~storeUp => resp'.status \in {400, 500}
                /\ (~storeUp /\ ~InvalidRecordBody(body)) =>
                      resp'.status = 500]_vars
    /\ []((resp.op = "record" /\ resp.status = 201) =>
            /\ resp.body.id < nextId
            /\ Cardinality(events) + purged = recorded)

\* C11 witness: a valid record request failed with 500 while the database
\* was unreachable, after an earlier one had been stored.
C11_Witness ==
    /\ resp.op = "record" /\ resp.status = 500
    /\ ~storeUp
    /\ ~InvalidRecordBody(resp.req)
    /\ events # {}
    /\ Cardinality(events) + purged = recorded

\* The button a record request names.
ButtonOf(body) ==
    [door_number |-> body.door_number, event_type |-> body.event_type]

\* C12: the timestamp_utc and created_at of a recorded event are the server
\* clock at the INSERT, whatever else the request carries: requests for the
\* same button that differ only in a timestamp field of their own get the
\* same timestamps.
C12_ServerAssignedTimestamps ==
    /\ [][\A body \in RecordBodies :
            (PostEvent(body) /\ resp'.status = 201) =>
                /\ resp'.body.timestamp_utc = now
                /\ \E e \in events' \ events :
                      e.timestamp_utc = now /\ e.created_at = now]_vars
    /\ [](\A b1, b2 \in RecordBodies :
            (/\ ~InvalidRecordBody(b1) /\ ~InvalidRecordBody(b2)
             /\ ButtonOf(b1) = ButtonOf(b2))
                => InsertTimestamp(b1, now) = InsertTimestamp(b2, now))

\* C12 witness: a request carrying its own timestamp was stored at the server
\* clock, with the same timestamp as a plain request for the same button made
\* at the same instant.
C12_Witness ==
    /\ resp.op = "record" /\ resp.status = 201
    /\ "timestamp_utc" \in DOMAIN resp.req
    /\ resp.req.timestamp_utc # now
    /\ now > 0
    /\ \E e, f \in events :
          /\ e.id = resp.body.id /\ f.id # e.id
          /\ f.door_number = e.door_number /\ f.event_type = e.event_type
          /\ e.timestamp_utc = now /\ e.created_at = now
          /\ f.timestamp_utc = now /\ f.created_at = now

\* What the contract asks of an undo of id i that took the table from `rows`
\* to `rows2` and was answered `status`.
UndoOutcome(rows, rows2, clock, i, status) ==
    LET active == {e \in rows : e.id = i /\ e.deleted_at = NULL}
    IN  IF active = {}
           THEN status = 404 /\ rows2 = rows
           ELSE /\ status = 204
                /\ \E e \in active :
                      rows2 = (rows \ {e})
                                 \cup {[e EXCEPT !.deleted_at = clock]}

\* C13: an undo of an id is answered 404 (NotFoundError) exactly when the
\* table holds no active row of that id (never inserted, soft-deleted or
\* purged) and then changes nothing; otherwise it is answered 204 and sets
\* deleted_at of that row and of no other.
C13_UndoNotFoundExactly ==
    /\ [][\A i \in UndoIds :
            DeleteEvent(i) =>
                UndoOutcome(events, events', now, i, resp'.status)]_vars
    /\ [][\A c \in Clients :
            UndoLastDelete(c) =>
                UndoOutcome(events, events', now, pending[c].id,
                            resp'.status)]_vars

\* C13 witness: an undo of an id never assigned was answered 404 while the
\* table held a soft-deleted row and an active one.
C13_Witness ==
    /\ resp.op = "undo" /\ resp.status = 404
    /\ resp.req.id >= nextId
    /\ \E e, f \in events : e.deleted_at # NULL /\ f.deleted_at = NULL

\* The limit a recent request asks for, read off its query text by hand:
\* 0 - 1 stands for a request this table does not list.
AskedLimit(query) ==
    IF "limit" \notin DOMAIN query THEN 10
    ELSE IF query.limit = <<"1">> THEN 1
    ELSE IF query.limit = <<"2", "x">> THEN 2
    ELSE 0 - 1

ActiveCount == Cardinality({e \in events : e.deleted_at = NULL})

AsksNonPositive(query) ==
    "limit" \in DOMAIN query /\ query.limit \in {<<"0">>, <<"-", "1">>}

AsksAMillion(query) ==
    "limit" \in DOMAIN query
        /\ query.limit = <<"1", "0", "0", "0", "0", "0", "0">>

\* C15: recent bounds its limit before the statement runs: a request with a
\* limit of 0 or less, or with an absurdly large one (a million), is either
\* refused (400) or runs the statement with a limit of at least 1 and below
\* the one asked for.
C15_RecentLimitBounded ==
    [][\A query \in RecentQueries :
          (/\ resp'.op = "recent" /\ resp'.req = query
           /\ GetRecent(query)) =>
              /\ AsksNonPositive(query) =>
                    \/ resp'.status = 400
                    \/ resp'.status = 200 /\ RecentLimit(query) >= 1
              /\ AsksAMillion(query) =>
                    \/ resp'.status = 400
                    \/ resp'.status = 200 /\ RecentLimit(query) < 1000000]_vars

\* C16: the lookup of a button's last event returns an active event of that
\* button whose timestamp no other active event of the button exceeds, never
\* a soft-deleted event or one of another button, and answers 404 exactly
\* when the button has no active event.
C16_FindLastActive ==
    [][\A c \in Clients, query \in Buttons :
          (/\ resp'.op = "last" /\ resp'.req = query
           /\ GetLast(c, query)) =>
              LET act == {e \in events :
                            /\ e.door_number = query.door_number
                            /\ e.event_type = query.event_type
                            /\ e.deleted_at = NULL}
              IN  IF act = {}
                     THEN resp'.status = 404
                     ELSE /\ resp'.status = 200
                          /\ \E e \in act :
                                /\ resp'.body = Project(e)
                                /\ \A f \in act :
                                      f.timestamp_utc <= e.timestamp_utc]_vars

\* C16 witness: the lookup returned the older, active event of a button whose
\* newer event is soft-deleted.
C16_Witness ==
    /\ resp.op = "last" /\ resp.status = 200
    /\ \E c \in Clients : pending[c].id = resp.body.id
    /\ \E e, f \in events :
          /\ e.id = resp.body.id /\ e.deleted_at = NULL
          /\ f.door_number = e.door_number /\ f.event_type = e.event_type
          /\ f.deleted_at # NULL
          /\ f.timestamp_utc > e.timestamp_utc

\* The rows an undo step changed or removed.
RowsTouched == {e \in events : e \notin events'}

\* C17: with records of a button running between the two steps of an undo of
\* that button, the undo soft-deletes at most one event, the one its lookup
\* found, and the lookup finds the last active event of the button at that
\* instant: greatest timestamp, and among equal timestamps greatest id.
C17_UndoLastTargetsLastAtFind ==
    /\ [][\A c \in Clients, query \in Buttons :
            (/\ resp'.op = "last" /\ resp'.req = query
             /\ GetLast(c, query) /\ resp'.status = 200) =>
                /\ pending'[c].id = LastByTimestampThenId(
                       events, query.door_number, query.event_type)
                /\ events' = events]_vars
    /\ [][\A c \in Clients :
            UndoLastDelete(c) =>
                /\ Cardinality(RowsTouched) <= 1
                /\ \A e \in RowsTouched :
                      /\ e.id = pending[c].id
                      /\ e.deleted_at = NULL
                      /\ [e EXCEPT !.deleted_at = now] \in events'
                /\ Cardinality(events') = Cardinality(events)]_vars

\* The part of C17 that does not depend on the order of equal timestamps: the
\* lookup finds an active event of the button with the greatest timestamp,
\* and the DELETE marks that event and no other, whatever was recorded in
\* between.
UndoLastTargetsIdFound ==
    /\ [][\A c \in Clients, query \in Buttons :
            (/\ resp'.op = "last" /\ resp'.req = query
             /\ GetLast(c, query) /\ resp'.status = 200) =>
                /\ \E e \in SelectLast(events, query.door_number,
                                        query.event_type) :
                      pending'[c].id = e.id
                /\ events' = events]_vars
    /\ [][\A c \in Clients :
            UndoLastDelete(c) =>
                /\ Cardinality(RowsTouched) <= 1
                /\ \A e \in RowsTouched :
                      /\ e.id = pending[c].id
                      /\ e.deleted_at = NULL
                      /\ [e EXCEPT !.deleted_at = now] \in events'
                /\ Cardinality(events') = Cardinality(events)]_vars

\* A record of the button ran between the lookup and the DELETE of an undo:
\* the older event is soft-deleted, the newer one is active.
UndoLastOvertaken ==
    /\ resp.op = "undo" /\ resp.status = 204
    /\ resp.req.door_number # 0
    /\ \E e, f \in events :
          /\ e.id = resp.req.id /\ e.deleted_at # NULL
          /\ f.door_number = e.door_number /\ f.event_type = e.event_type
          /\ f.deleted_at = NULL
          /\ f.timestamp_utc > e.timestamp_utc

\* The last line of the job's log says its run failed.
LastFireFailed ==
    resp.op = "cron" /\ resp.body.line = "Scheduled cleanup failed"

\* C18: a fire of the daily job runs the purge once: with the database up
\* it removes exactly the expired rows and logs their number; with the
\* database unreachable it logs the failure and changes nothing.  Nothing
\* purges again on its own afterwards (rows leave the table only in a fire or
\* a cleanup request), the job can always fire again, and a fire after a
\* failed one purges as any other.
C18_SchedulerFireOnceNoRetry ==
    /\ [][CronCleanup =>
            IF storeUp
               THEN /\ events' = events \ Expired(events, now)
                    /\ purged' = purged + Cardinality(Expired(events, now))
                    /\ resp' = LogLine("Cleanup job completed",
                                       Cardinality(Expired(events, now)))
               ELSE /\ events' = events /\ purged' = purged
                    /\ resp' = LogLine("Scheduled cleanup failed", 0)]_vars
    /\ [][(LastFireFailed /\ storeUp /\ CronCleanup) =>
            /\ \A e \in events' : now - e.created_at <= 7
            /\ resp'.body.line = "Cleanup job completed"]_vars
    /\ [][(\E e \in events : e.id \notin Ids(events')) =>
            (CronCleanup \/ PostCleanup)]_vars
    /\ [](ENABLED CronCleanup)

\* C18 witness: a fire failed while the database was unreachable and left an
\* expired row in the table.
C18_Witness ==
    /\ LastFireFailed
    /\ ~storeUp
    /\ Expired(events, now) # {}

\* C19: every event whose created_at is more than 7 days back, active or
\* soft-deleted, is eventually gone from the table, provided the daily job
\* keeps firing and the database comes back after an outage.
C19_ExpiredEventuallyPurged ==
    \A i \in 1..MaxId :
        (\E e \in events : e.id = i /\ now - e.created_at > 7)
            ~> (i \notin Ids(events))

\* C19 witness: a fire of the job purged a soft-deleted event.
C19_Witness ==
    /\ resp.op = "cron" /\ resp.body.line = "Cleanup job completed"
    /\ resp.body.deleted >= 1
    /\ \E i \in 1..MaxId : undoAcks[i] = 1 /\ i \notin Ids(events)

\* C20: every row of the table has a door_number in 1..26 and an event_type
\* among the four, also when rows are inserted past the handler's
\* validation: the table refuses such an INSERT and stays as it is.
C20_StoreRejectsOutOfRange ==
    /\ [](\A e \in events :
            /\ e.door_number \in 1..26
            /\ e.event_type \in {"A_IN", "A_OUT", "B_IN", "B_OUT"})
    /\ [][\A d \in DirectDoors, t \in DirectTypes :
            (/\ d \notin 1..26 \/ t \notin {"A_IN", "A_OUT", "B_IN", "B_OUT"}
             /\ DirectInsert(d, t))
                => events' = events]_vars

\* C20 witness: the table refused a direct INSERT of door 27 while it held
\* rows, one of them inserted directly.
C20_Witness ==
    /\ resp.op = "sql" /\ resp.body = "violates check constraint"
    /\ resp.req.door_number = 27
    /\ Cardinality(events) + purged > recorded

\* C21: as long as a row exists its id, door_number, event_type,
\* timestamp_utc and created_at are those it was created with: a step changes
\* at most deleted_at of a row, from null to the clock, and an undo does so
\* for its target only.
C21_AppendOnly ==
    /\ [][\A e \in events :
            \A f \in events' :
                f.id = e.id =>
                    /\ f.door_number = e.door_number
                    /\ f.event_type = e.event_type
                    /\ f.timestamp_utc = e.timestamp_utc
                    /\ f.created_at = e.created_at
                    /\ f.deleted_at = e.deleted_at
                          \/ (e.deleted_at = NULL /\ f.deleted_at = now)]_vars
    /\ [][\A i \in UndoIds :
            DeleteEvent(i) =>
                \A e \in events : e.id # i => e \in events']_vars
    /\ [](\A e \in events :
            e.created_at = e.timestamp_utc /\ e.created_at <= now)

\* C21 witness: an event recorded on day 0 was soft-deleted on a later day
\* and still carries the timestamps of day 0.
C21_Witness ==
    /\ resp.op = "undo" /\ resp.status = 204
    /\ \E e \in events :
          /\ e.id = resp.req.id
          /\ e.deleted_at > e.timestamp_utc
          /\ e.timestamp_utc = 0 /\ e.created_at = 0

\* C22: ids are unique, and a new event gets an id greater than every id
\* assigned before it (every id below the sequence), so the id of a purged
\* row is not given out again.
C22_IdsMonotonic ==
    /\ [](\A e, f \in events : e.id = f.id => e = f)
    /\ [](\A e \in events : e.id < nextId)
    /\ [][\A e \in events' :
            e.id \notin Ids(events) =>
                /\ e.id >= nextId
                /\ \A f \in events : f.id < e.id
                /\ nextId' > e.id]_vars
    /\ [][nextId' >= nextId]_vars

\* C22 witness: an event was recorded with id 2 after the row of id 1 had
\* been purged.
C22_Witness ==
    /\ resp.op = "record" /\ resp.status = 201
    /\ resp.body.id = 2
    /\ purged >= 1
    /\ 1 \notin Ids(events) /\ 2 \in Ids(events)

\* C23: a record request runs at most one INSERT: it draws at most one value
\* of the sequence and adds at most one row; when the statement fails the
\* request is answered 500 and nothing is inserted, then or later: a row
\* enters the table only in the step that answers its request 201.
C23_NoSilentRetry ==
    /\ [][\A body \in RecordBodies :
            PostEvent(body) =>
                /\ Cardinality(events') <= Cardinality(events) + 1
                /\ nextId' <= nextId + 1
                /\ (~storeUp /\ ~InvalidRecordBody(body)) =>
                      /\ resp'.status = 500
                      /\ events' = events /\ nextId' = nextId]_vars
    /\ [][\A e \in events' :
            e.id \notin Ids(events) =>
                /\ resp'.op = "record" /\ resp'.status = 201
                /\ resp'.body.id = e.id
                /\ Ids(events') = Ids(events) \cup {e.id}]_vars

\* C23 witness: a record request failed with 500, the database is back, and
\* no row was inserted for it in the meantime.
C23_Witness ==
    /\ resp.op = "record" /\ resp.status = 500
    /\ storeUp
    /\ events = {} /\ nextId = 1 /\ recorded = 0

\* C24: every call a handler makes eventually returns to its caller: the
\* calls accepted and not answered always come down to none.
C24_EveryCallReturns == (Outstanding > 0) ~> (Outstanding = 0)

\* What the pool does bound: the wait for a connection.
AcquisitionBounded == (queued > 0) ~> (queued = 0)

\* A call is stalled while the pool still has free connections.
StalledCall == hung > 0 /\ inUse < POOL_MAX

\* The rows whose lines are in csv, the one string the export handler has
\* built when it calls res.send.
HeldAtSend(response) == Len(Tail(response.body))

\* C25: an export never holds all active rows at once: with two or more
\* active rows in the table, the handler holds fewer rows than that when it
\* sends.
C25_ExportNeverHoldsAllRows ==
    [][(/\ Cardinality(ActiveRows(events)) >= 2
        /\ resp'.op = "export" /\ resp'.status = 200
        /\ GetExport)
       => HeldAtSend(resp') < Cardinality(ActiveRows(events))]_vars

\* What the handler does: the string it sends has the line of every active
\* row.
ExportHoldsEveryActiveRow ==
    [][(resp'.op = "export" /\ resp'.status = 200 /\ GetExport)
       => HeldAtSend(resp') = Cardinality(ActiveRows(events))]_vars

\* The connection the initialisation holds between pool.connect and
\* client.release.
HeldByInit == IF phase \in {"checking", "creating", "indexing"} THEN 1 ELSE 0

\* C26: at most POOL_MAX connections are checked out, and the connections
\* checked out are those of the operations still under way (the
\* initialisation between its connect and its way out, the calls whose
\* statement has not returned): an operation that has ended, in success or
\* in failure, holds none; a call waits only when the pool is exhausted.
C26_PoolBoundedAndReleased ==
    /\ inUse \in 0..POOL_MAX
    /\ inUse = running + hung + HeldByInit
    /\ queued > 0 => inUse = POOL_MAX
    /\ phase = "exited" => inUse = 0

\* C26 witness: every connection of the pool is checked out, a call waits,
\* and calls have returned their connections before.
C26_Witness ==
    /\ inUse = POOL_MAX /\ queued > 0
    /\ arrived > inUse + queued

\* C30: the server listens only after initializeDatabaseIfNeeded has
\* returned, with the table in place; it accepts a call only while it
\* listens; an initialisation that fails takes the process to its exit, from
\* where it never listens.
C30_ListenAfterInit ==
    /\ [](phase = "listening" => tableExists /\ HeldByInit = 0)
    /\ [][phase' = "listening" => phase \in {"ready", "listening"}]_vars
    /\ [][arrived' # arrived => phase = "listening" /\ tableExists]_vars
    /\ [][phase = "exited" => phase' = "exited"]_vars
    /\ [][(phase' = "exited" /\ phase # "exited") =>
            /\ phase \in {"starting", "checking", "creating", "indexing"}
            /\ arrived = 0]_vars
    /\ [][(phase' = "ready" /\ phase # "ready") =>
            /\ tableExists'
            /\ phase \in {"checking", "indexing"}
            /\ phase = "indexing" => indexes' = INDEX_COUNT]_vars

\* C30 witness: the initialisation has returned, the server listens on a
\* database that has the table and its indexes, and serves a call.
C30_Witness ==
    /\ phase = "listening" /\ arrived > 0
    /\ tableExists /\ indexes = INDEX_COUNT
    /\ running > 0

\* The last response is the 201 of a record of the button: no handler has
\* run since that record.
JustRecorded(button) ==
    /\ resp.op = "record" /\ resp.status = 201
    /\ resp.req.door_number = button.door_number
    /\ resp.req.event_type = button.event_type

\* The last response is the 200 of the lookup of client c's undo: no handler
\* has run since that lookup.
JustFound(c) ==
    /\ resp.op = "last" /\ resp.status = 200
    /\ pending[c].op = "undo" /\ pending[c].id = resp.body.id

\* C27: an undo of a button that follows a successful record of that button
\* with nothing in between finds the event just recorded, and its DELETE,
\* with nothing in between either, takes that event and no other out of the
\* active events.
C27_RecordThenUndoLast ==
    /\ [][\A c \in Clients, button \in Buttons :
            (/\ JustRecorded(button)
             /\ resp'.op = "last" /\ resp'.req = button
             /\ GetLast(c, button)) =>
                /\ resp'.status = 200
                /\ pending'[c].id = resp.body.id]_vars
    /\ [][\A c \in Clients :
            (JustFound(c) /\ UndoLastDelete(c)) =>
                /\ resp'.status = 204
                /\ ActiveRows(events')
                     = {e \in ActiveRows(events) : e.id # pending[c].id}]_vars

\* The part of C27 that does not depend on the order of equal timestamps:
\* the pair is an inverse when no older active event of the button has the
\* timestamp of the event just recorded.
RecordThenUndoLastWithoutTie ==
    /\ [][\A c \in Clients, button \in Buttons :
            (/\ JustRecorded(button)
             /\ \A e \in LastCandidates(events, button.door_number,
                                         button.event_type) :
                   e.id # resp.body.id =>
                       e.timestamp_utc # resp.body.timestamp_utc
             /\ resp'.op = "last" /\ resp'.req = button
             /\ GetLast(c, button)) =>
                /\ resp'.status = 200
                /\ pending'[c].id = resp.body.id]_vars
    /\ [][\A c \in Clients :
            (JustFound(c) /\ UndoLastDelete(c)) =>
                /\ resp'.status = 204
                /\ ActiveRows(events')
                     = {e \in ActiveRows(events) : e.id # pending[c].id}]_vars

\* An undo directly after the record of a second event of the button at
\* the timestamp of the first has found the first.
UndoLastFoundOlder ==
    \E c \in Clients :
        /\ JustFound(c)
        /\ \E e \in ActiveRows(events) :
              /\ e.id > pending[c].id
              /\ e.door_number = pending[c].door_number
              /\ e.event_type = pending[c].event_type

\* C28: an undo of a button is answered 404 only if the button had no active
\* event at some instant between its lookup and its DELETE.  An active event
\* of the button with a smaller id than the one found was there at the
\* lookup and has been active ever since, so no such event is in the table
\* when the DELETE is answered 404; in particular, of two undos of a button
\* with two active events, none is.
C28_UndoLastNotFoundOnlyWhenEmpty ==
    [][\A c \in AllClients :
          (resp'.op = "undo" /\ resp'.status = 404 /\ UndoLastDelete(c)) =>
              \A e \in LastCandidates(events, pending[c].door_number,
                                       pending[c].event_type) :
                  e.id >= pending[c].id]_vars

\* Both clients are between the lookup and the DELETE of an undo of the
\* same button, which has two active events, and both lookups have found
\* the same one.
TwoUndosFoundTheSame ==
    /\ pending[Rival].op = "undo"
    /\ \A c \in Clients : pending[c] = pending[Rival]
    /\ Cardinality(LastCandidates(events, pending[Rival].door_number,
                                   pending[Rival].event_type)) = 2

\* C29: from the same table at the same instant, the daily job and
\* POST /api/cleanup leave the same table and report the same count: each
\* outcome of the one (rows left, rows deleted, count) is an outcome of the
\* other.  When the database is unreachable both leave the table as it is
\* and report the failure.
C29_CronEqualsCleanup ==
    /\ storeUp =>
          \A left \in SUBSET events, n \in 0..Cardinality(events) :
              ENABLED (/\ PostCleanup
                       /\ events' = left /\ purged' = purged + n
                       /\ resp'.status = 200 /\ resp'.body = n)
              <=>
              ENABLED (/\ CronCleanup
                       /\ events' = left /\ purged' = purged + n
                       /\ resp'.body.line = "Cleanup job completed"
                       /\ resp'.body.deleted = n)
    /\ storeUp =>
          /\ ENABLED (PostCleanup /\ events' = events \ Expired(events, now))
          /\ ~ENABLED (PostCleanup /\ resp'.status # 200)
          /\ ~ENABLED (CronCleanup
                       /\ resp'.body.line # "Cleanup job completed")
    /\ ~storeUp =>
          /\ ENABLED (PostCleanup /\ resp'.status = 500)
          /\ ENABLED (CronCleanup
                      /\ resp'.body.line = "Scheduled cleanup failed")
          /\ ~ENABLED (PostCleanup /\ events' # events)
          /\ ~ENABLED (CronCleanup /\ events' # events)

\* C29 witness: the job has deleted the one expired row of a table, where
\* a cleanup request would have deleted the same; a row exactly 7 days old
\* is left.
C29_Witness ==
    /\ resp.op = "cron" /\ resp.body.line = "Cleanup job completed"
    /\ resp.body.deleted = 1
    /\ \E e \in events : Age(e) = DATA_RETENTION_DAYS
    /\ storeUp

\* C31: two processes that initialise at the same time a database without
\* the table both complete without error: the CREATE TABLE a process is
\* about to run is one the database accepts; and once both have completed,
\* the table is there with all its indexes.
C31_ConcurrentInitBothComplete ==
    /\ phase = "creating" => ENABLED (CreateTable /\ phase' = "indexing")
    /\ peer = "creating" => ENABLED (PeerCreateTable /\ peer' = "indexing")
    /\ (phase \in {"ready", "listening"} /\ peer \in {"ready", "listening"})
          => tableExists /\ indexes = INDEX_COUNT

\* What the code provides: the table is created by one process at most, and
\* when both processes have completed it has all its indexes.
TwoInstancesOneCreates ==
    /\ ~(phase = "indexing" /\ peer = "indexing")
    /\ (phase \in {"ready", "listening"} /\ peer \in {"ready", "listening"})
          => tableExists /\ indexes = INDEX_COUNT

\* Both processes have found no table, one has created it, and the other
\* is about to send its CREATE TABLE.
CreateTableOnExistingTable ==
    /\ tableExists
    /\ \/ phase = "creating" /\ peer \in {"indexing", "ready", "listening"}
       \/ peer = "creating" /\ phase \in {"indexing", "ready", "listening"}

=============================================================================
